---- MODULE Spec2Model ----
(***************************************************************************)
(* Model of the BulkWithdraw contract (the on-ledger token registry and    *)
(* the two atomic batch entry points) and of the off-ledger BulkWithdraw   *)
(* class that validates a token batch before submitting it.                *)
(*                                                                         *)
(* A ledger transaction is one atomic step: a revert leaves the ledger     *)
(* state as it was.  The off-ledger class is an async function; each       *)
(* awaited ledger query is one step, so other transactions interleave.     *)
(***************************************************************************)
EXTENDS Integers, Sequences, FiniteSets, TLC

(***************************************************************************)
(* Addresses                                                               *)
(***************************************************************************)
ZeroAddr == "0x0"
OwnerAddr == "Owner"      \* deployer of BulkWithdraw, config.ownerWallet
Exec == "Exec"            \* address(this) of BulkWithdraw, config.contract
W1 == "W1"                \* holding wallets (senders of token invoices)
W2 == "W2"
R1 == "R1"                \* a receiver that is a plain account
RJ == "RJ"                \* a receiver contract that rejects native coin
TA == "TA"                \* an ERC20 that reverts on a failed transfer
TB == "TB"                \* an ERC20 that returns false on a failed transfer
TX == "TX"                \* an address that is never registered

(***************************************************************************)
(* Bounds of the model                                                     *)
(***************************************************************************)
MaxRegs == 3              \* registrations explored on top of the initial registry
MaxBatch == 2             \* longest batch explored
OwnerFunds == 3           \* native coin the owner starts with
TokenSupply == 3          \* supply of each ERC20, held by its deployer at first

(***************************************************************************)
(* Program constants                                                       *)
(***************************************************************************)
IdModulus == 65536        \* 2^16: range of the uint16 ids
MaxUint8 == 255           \* range of the uint8 loop index of the native path
MAX_UINT256 == 1000000    \* stands for 2^256 - 1: above every amount of the model

MaxUint16 == IdModulus - 1

VARIABLES
    owner,        \* Ownable._owner
    tokenId,      \* Counters.Counter tokenId (its current value, a uint256)
    tokens,       \* mapping(uint16 => address) tokens, on the ids in ExplicitIds
    preloaded,    \* ids 1..preloaded were registered before the first step
    regLog,       \* TokenAdded events emitted since the first step, in order
    lastReg,      \* the last addToken transaction and its outcome
    eth,          \* native balance of every account
    lastNative,   \* the last native-coin transaction and its outcome
    bal,          \* ERC20 balanceOf, per token and holder
    allow,        \* ERC20 allowance granted to the BulkWithdraw contract, per token and holder
    lastTok,      \* the last token transaction and its outcome
    orch,         \* the processTokenInvoices call in progress (its locals and position)
    pending,      \* the batch transaction processTokenInvoices has sent, not yet executed
    lastOrch,     \* how the last processTokenInvoices call ended
    lastCheck,    \* the last direct call of one of the class's check methods
    sub,          \* the processInvoices call in progress (its locals and position)
    npending,     \* the native batch transaction processInvoices has sent, not yet executed
    lastSub       \* how the last processInvoices call ended

regVars == <<owner, tokenId, tokens, preloaded, regLog, lastReg>>
subVars == <<sub, npending, lastSub>>
nativeVars == <<eth, lastNative, sub, npending, lastSub>>
erc20Vars == <<bal, allow>>
orchVars == <<orch, pending, lastOrch, lastCheck>>
tokenVars == <<bal, allow, lastTok, orch, pending, lastOrch, lastCheck>>
vars == <<owner, tokenId, tokens, preloaded, regLog, lastReg, eth, lastNative,
          bal, allow, lastTok, orch, pending, lastOrch, lastCheck, sub, npending,
          lastSub>>

Min(S) == CHOOSE x \in S : \A y \in S : x <= y

RECURSIVE SumOver(_, _)
SumOver(f, S) ==
    IF S = {} THEN 0
    ELSE LET x == CHOOSE y \in S : TRUE IN f[x] + SumOver(f, S \ {x})

\* f[lo] + .. + f[hi], summed by halves
RECURSIVE SumRange(_, _, _)
SumRange(f, lo, hi) ==
    IF lo > hi THEN 0
    ELSE IF lo = hi THEN f[lo]
    ELSE LET mid == (lo + hi) \div 2
         IN  SumRange(f, lo, mid) + SumRange(f, mid + 1, hi)

(***************************************************************************)
(* TokenRegistry                                                           *)
(*                                                                         *)
(* The mapping has 65536 slots.  The model stores the slots it can write   *)
(* (ExplicitIds); every other slot k holds Filler when 1 <= k <= preloaded *)
(* and the zero address otherwise.  preloaded is 0 (a fresh contract) or   *)
(* NearWrap (the owner has already registered Filler NearWrap times), so   *)
(* that the uint16 truncation of the counter is within reach.              *)
(***************************************************************************)
Filler == TA
NearWrap == IdModulus - 2
ExplicitIds == (0 .. MaxRegs) \cup {MaxUint16}
FirstHidden == MaxRegs + 1
LastHidden == MaxUint16 - 1

RegTokens == {TA, TB, ZeroAddr}
Addresses == {TA, TB, TX, ZeroAddr}
Callers == {OwnerAddr, W1}

TokenAt(k) ==
    IF k \in DOMAIN tokens THEN tokens[k]
    ELSE IF k >= 1 /\ k <= preloaded THEN Filler
    ELSE ZeroAddr

\* uint16(x): an explicit narrowing conversion truncates
ToUint16(x) == x % IdModulus

\* require(_id != 0); return tokens[_id]
getTokenById(id) ==
    IF id = 0 THEN [reverted |-> TRUE, token |-> ZeroAddr]
    ELSE [reverted |-> FALSE, token |-> TokenAt(id)]

\* The next index the scan looks at after i: i + 1, except that a run of
\* hidden slots that all differ from a is stepped over at once.
NextProbe(a, i) ==
    IF i + 1 \in ExplicitIds \/ TokenAt(i + 1) = a THEN i + 1
    ELSE IF tokenId <= LastHidden THEN tokenId
    ELSE LastHidden + 1

\* for (uint16 i; i < tokenId.current(); i++) if (tokens[i] == _token) return i;
\* return 0.  i++ is checked arithmetic on a uint16: it reverts at 65535.
RECURSIVE ScanTokens(_, _)
ScanTokens(a, i) ==
    IF ~(i < tokenId) THEN [reverted |-> FALSE, id |-> 0]
    ELSE IF TokenAt(i) = a THEN [reverted |-> FALSE, id |-> i]
    ELSE IF i = MaxUint16 THEN [reverted |-> TRUE, id |-> 0]
    ELSE ScanTokens(a, NextProbe(a, i))

getTokenByAddress(a) == ScanTokens(a, 0)

\* Mutants of addToken: onlyOwner dropped, and the occupied-slot check dropped
addToken_NoOwnerCheck(caller, token) ==
    LET count == tokenId + 1
        currentId == ToUint16(count)
    IN  IF TokenAt(currentId) # ZeroAddr
        THEN [ok |-> FALSE, tokenId |-> tokenId, tokens |-> tokens, id |-> 0]
        ELSE [ok |-> TRUE, tokenId |-> count,
              tokens |-> [tokens EXCEPT ![currentId] = token], id |-> currentId]
addToken_NoSlotCheck(caller, token) ==
    LET count == tokenId + 1
        currentId == ToUint16(count)
    IN  IF caller # owner
        THEN [ok |-> FALSE, tokenId |-> tokenId, tokens |-> tokens, id |-> 0]
        ELSE [ok |-> TRUE, tokenId |-> count,
              tokens |-> [tokens EXCEPT ![currentId] = token], id |-> currentId]

\* onlyOwner; tokenId.increment(); currentId = uint16(tokenId.current());
\* require(tokens[currentId] == address(0)); tokens[currentId] = token
addToken(caller, token) ==
    LET count == tokenId + 1
        currentId == ToUint16(count)
    IN  IF caller # owner
        THEN [ok |-> FALSE, tokenId |-> tokenId, tokens |-> tokens, id |-> 0]
        ELSE IF TokenAt(currentId) # ZeroAddr
        THEN [ok |-> FALSE, tokenId |-> tokenId, tokens |-> tokens, id |-> 0]
        ELSE [ok |-> TRUE, tokenId |-> count,
              tokens |-> [tokens EXCEPT ![currentId] = token], id |-> currentId]

NoReg == [op |-> "none", caller |-> ZeroAddr, token |-> ZeroAddr, ok |-> FALSE,
          id |-> 0, preId |-> 0, preTokens |-> <<>>]

AddToken(caller, token) ==
    /\ tokenId < preloaded + MaxRegs
    /\ LET r == addToken(caller, token) IN
        /\ tokenId' = r.tokenId
        /\ tokens' = r.tokens
        /\ regLog' = IF r.ok THEN Append(regLog, [id |-> r.id, token |-> token])
                     ELSE regLog
        /\ lastReg' = [op |-> "addToken", caller |-> caller, token |-> token,
                       ok |-> r.ok, id |-> r.id, preId |-> tokenId,
                       preTokens |-> tokens]
    /\ UNCHANGED <<owner, preloaded>>
    /\ UNCHANGED <<nativeVars, tokenVars>>

\* Ownable.transferOwnership(newOwner): onlyOwner, newOwner != address(0)
TransferOwnership(caller, newOwner) ==
    /\ newOwner # ZeroAddr
    /\ owner' = IF caller = owner THEN newOwner ELSE owner
    /\ UNCHANGED <<tokenId, tokens, preloaded, regLog, lastReg>>
    /\ UNCHANGED <<nativeVars, tokenVars>>

InitRegistry ==
    /\ owner = OwnerAddr
    /\ preloaded \in {0, NearWrap}
    /\ tokenId = preloaded
    /\ tokens = [k \in ExplicitIds |->
                    IF k >= 1 /\ k <= preloaded THEN Filler ELSE ZeroAddr]
    /\ regLog = <<>>
    /\ lastReg = NoReg

(***************************************************************************)
(* AtomicBatchExecutor, native-coin path                                   *)
(***************************************************************************)
Accounts == {OwnerAddr, W1, Exec, R1, RJ}
NativeReceivers == {R1, RJ, Exec}
Amounts == {1, 2}
Values == {0} \cup Amounts

\* payable(x).transfer(..) reverts when x has no payable receive/fallback
RejectsNative(a) == a = RJ

NativeInvoices == [receiver : NativeReceivers, amount : Amounts]

BatchesOf(S) == UNION {[1 .. n -> S] : n \in 0 .. MaxBatch}

\* The loops of etherBulkTransferAmounts run over a loop state, one iteration
\* per step; n iterations are run by halves, which keeps the evaluation shallow
\* on batches of several hundred invoices.  (params[i] of the code is
\* params[i + 1] here.)

\* Mutant of SumStep: the index is a uint16
SumStep_WideIndex(params, st) ==
    IF ~st.ok \/ ~(st.i < Len(params)) THEN st
    ELSE IF st.i = MaxUint16
    THEN [st EXCEPT !.ok = FALSE, !.totalAmount = @ + params[st.i + 1].amount]
    ELSE [st EXCEPT !.i = @ + 1, !.totalAmount = @ + params[st.i + 1].amount]

\* one iteration of for (uint8 i; i < params.length; i++)
\*                        totalAmount += params[i].amount;
\* i++ is checked arithmetic on a uint8: after the body has run with i = 255
\* the increment reverts.  A loop that has ended or reverted stays as it is.
SumStep(params, st) ==
    IF ~st.ok \/ ~(st.i < Len(params)) THEN st
    ELSE IF st.i = MaxUint8
    THEN [st EXCEPT !.ok = FALSE, !.totalAmount = @ + params[st.i + 1].amount]
    ELSE [st EXCEPT !.i = @ + 1, !.totalAmount = @ + params[st.i + 1].amount]

RECURSIVE SumSteps(_, _, _)
SumSteps(params, st, n) ==
    IF n = 0 THEN st
    ELSE IF n = 1 THEN SumStep(params, st)
    ELSE LET half == n \div 2
             mid == SumSteps(params, st, half)
         IN  IF ~mid.ok THEN mid ELSE SumSteps(params, mid, n - half)

\* the summing loop: Len(params) iterations end it
SumLoop(params) ==
    SumSteps(params, [ok |-> TRUE, i |-> 0, totalAmount |-> 0], Len(params))

\* processInvoices: for (const invoice of sendingInvoices)
\*                      totalAmount += invoice.amount
RECURSIVE TotalAmount(_)
TotalAmount(params) ==
    IF params = <<>> THEN 0
    ELSE Head(params).amount + TotalAmount(Tail(params))

\* Mutant of PayLoop: the loop stops after the first transfer
PayLoop_FirstOnly(e, params, paid) ==
    IF params = <<>> THEN [ok |-> TRUE, eth |-> e, paid |-> paid]
    ELSE LET inv == Head(params) IN
         IF e[Exec] < inv.amount \/ RejectsNative(inv.receiver)
         THEN [ok |-> FALSE, eth |-> e, paid |-> paid]
         ELSE [ok |-> TRUE,
               eth |-> [[e EXCEPT ![Exec] = @ - inv.amount]
                           EXCEPT ![inv.receiver] = @ + inv.amount],
               paid |-> paid + 1]

\* one iteration of for (uint8 i; i < params.length; i++)
\*                        payable(params[i].receiver).transfer(params[i].amount);
\* st.eth: balances so far; st.paid: transfers made so far, which is the index
\* i; i++ reverts after the body has run with i = 255
PayStep(params, st) ==
    IF ~st.ok \/ ~(st.paid < Len(params)) THEN st
    ELSE LET inv == params[st.paid + 1] IN
         IF st.eth[Exec] < inv.amount \/ RejectsNative(inv.receiver)
         THEN [st EXCEPT !.ok = FALSE]
         ELSE IF st.paid = MaxUint8
         THEN [st EXCEPT !.ok = FALSE, !.paid = @ + 1]
         ELSE [ok |-> TRUE,
               eth |-> [[st.eth EXCEPT ![Exec] = @ - inv.amount]
                           EXCEPT ![inv.receiver] = @ + inv.amount],
               paid |-> st.paid + 1]

RECURSIVE PaySteps(_, _, _)
PaySteps(params, st, n) ==
    IF n = 0 THEN st
    ELSE IF n = 1 THEN PayStep(params, st)
    ELSE LET half == n \div 2
             mid == PaySteps(params, st, half)
         IN  IF ~mid.ok THEN mid ELSE PaySteps(params, mid, n - half)

\* the transfer loop on the balances e: Len(params) iterations end it
PayLoop(e, params, paid) ==
    PaySteps(params, [ok |-> TRUE, eth |-> e, paid |-> paid], Len(params))

\* The balances the call sees: msg.value has been credited to the contract
Credit(e, caller, value) ==
    [[e EXCEPT ![caller] = @ - value] EXCEPT ![Exec] = @ + value]

\* Mutants of FundsSuffice: the check dropped, and the check made strict
FundsSuffice_Dropped(total, held) == TRUE
FundsSuffice_Strict(total, held) == total < held

\* The native fund check: require(totalAmount <= address(this).balance)
FundsSuffice(total, held) == total <= held

\* Mutant of etherBulkTransferAmounts: a failed transfer ends the call but the
\* transfers already made are kept (send instead of transfer)
etherBulkTransferAmounts_NoRevert(e, caller, value, params) ==
    LET held == Credit(e, caller, value)
        sum == SumLoop(params)
        r == PayLoop(held, params, 0)
    IN  IF caller # owner
        THEN [ok |-> FALSE, eth |-> e, paid |-> 0]
        ELSE IF ~sum.ok
        THEN [ok |-> FALSE, eth |-> e, paid |-> 0]
        ELSE IF ~FundsSuffice(sum.totalAmount, held[Exec])
        THEN [ok |-> FALSE, eth |-> e, paid |-> 0]
        ELSE [ok |-> r.ok, eth |-> r.eth, paid |-> r.paid]

\* etherBulkTransferAmounts as one transaction: the resulting balances, whether
\* it succeeded, and how many transfers ran before it ended
etherBulkTransferAmounts(e, caller, value, params) ==
    LET held == Credit(e, caller, value)
        sum == SumLoop(params)
        r == PayLoop(held, params, 0)
    IN  IF caller # owner
        THEN [ok |-> FALSE, eth |-> e, paid |-> 0]
        ELSE IF ~sum.ok
        THEN [ok |-> FALSE, eth |-> e, paid |-> 0]
        ELSE IF ~FundsSuffice(sum.totalAmount, held[Exec])
        THEN [ok |-> FALSE, eth |-> e, paid |-> 0]
        ELSE IF r.ok THEN [ok |-> TRUE, eth |-> r.eth, paid |-> r.paid]
        ELSE [ok |-> FALSE, eth |-> e, paid |-> r.paid]

NoNative == [op |-> "none", caller |-> ZeroAddr, value |-> 0, params |-> <<>>,
             ok |-> FALSE, paid |-> 0, pre |-> <<>>]

EtherBulkTransferAmounts(caller, value, params) ==
    /\ eth[caller] >= value
    /\ LET r == etherBulkTransferAmounts(eth, caller, value, params) IN
        /\ eth' = r.eth
        /\ lastNative' = [op |-> "etherBulk", caller |-> caller, value |-> value,
                          params |-> params, ok |-> r.ok, paid |-> r.paid,
                          pre |-> eth]
    /\ UNCHANGED <<regVars, tokenVars, subVars>>

\* Mutant of Receive: the deposit of an account other than the owner is
\* turned down
Receive_OnlyOwner(from, value) ==
    /\ value > 0
    /\ eth[from] >= value
    /\ eth' = IF from = owner THEN Credit(eth, from, value) ELSE eth
    /\ lastNative' = [op |-> "receive", caller |-> from, value |-> value,
                      params |-> <<>>, ok |-> (from = owner), paid |-> 0,
                      pre |-> eth]
    /\ UNCHANGED <<regVars, tokenVars, subVars>>

\* receive() external payable {}: a plain transfer of native coin to the contract
Receive(from, value) ==
    /\ value > 0
    /\ eth[from] >= value
    /\ eth' = Credit(eth, from, value)
    /\ lastNative' = [op |-> "receive", caller |-> from, value |-> value,
                      params |-> <<>>, ok |-> TRUE, paid |-> 0, pre |-> eth]
    /\ UNCHANGED <<regVars, tokenVars, subVars>>

(***************************************************************************)
(* The off-ledger BulkWithdraw class: processInvoices                      *)
(***************************************************************************)
IdleSub == [pc |-> "idle", amount |-> 0, invoices |-> <<>>, total |-> 0,
            contractBalance |-> 0]
\* how the last processInvoices call ended: the sum it computed, the balance
\* it read, the amount to fund, the number of transactions it sent
NoSub == [status |-> "none", total |-> 0, contractBalance |-> 0, amount |-> 0,
          sent |-> 0]

\* Mutant of InsufficientFunds: the comparison made non-strict
InsufficientFunds_NonStrict(totalAmount, contractBalance, amount) ==
    totalAmount >= contractBalance + amount

\* Mutant of InsufficientFunds: a sum one above the funds is let through
InsufficientFunds_OneOver(totalAmount, contractBalance, amount) ==
    totalAmount > contractBalance + amount + 1

\* if (totalAmount > contractBalance + amount) throw
InsufficientFunds(totalAmount, contractBalance, amount) ==
    totalAmount > contractBalance + amount

\* the owner invokes processInvoices(hdWallet, amount, sendingInvoices) with an
\* amount it holds; the invoice amounts are summed
ProcessInvoices(amount, sendingInvoices) ==
    /\ sub.pc = "idle" /\ npending = <<>>
    /\ lastSub = NoSub
    /\ eth[OwnerAddr] >= amount
    /\ sub' = [pc |-> "getBalance", amount |-> amount, invoices |-> sendingInvoices,
               total |-> TotalAmount(sendingInvoices), contractBalance |-> 0]
    /\ UNCHANGED <<regVars, tokenVars, eth, lastNative, npending, lastSub>>

\* const contractBalance = await this.provider.getBalance(this.config.contract)
\* followed by the fund check
GetBalance ==
    /\ sub.pc = "getBalance"
    /\ IF InsufficientFunds(sub.total, eth[Exec], sub.amount)
       THEN /\ sub' = IdleSub
            /\ lastSub' = [status |-> "threw", total |-> sub.total,
                           contractBalance |-> eth[Exec], amount |-> sub.amount,
                           sent |-> 0]
       ELSE /\ sub' = [sub EXCEPT !.pc = "send", !.contractBalance = eth[Exec]]
            /\ lastSub' = lastSub
    /\ UNCHANGED <<regVars, tokenVars, eth, lastNative, npending>>

\* await contractInstance.etherBulkTransferAmounts(sendingInvoices,
\*                                                 {value: amount, nonce})
\* signed by config.ownerWallet: the transaction is sent, the call returns
SendNative ==
    /\ sub.pc = "send"
    /\ npending' = <<[from |-> OwnerAddr, value |-> sub.amount,
                      params |-> sub.invoices]>>
    /\ lastSub' = [status |-> "returned", total |-> sub.total,
                   contractBalance |-> sub.contractBalance, amount |-> sub.amount,
                   sent |-> 1]
    /\ sub' = IdleSub
    /\ UNCHANGED <<regVars, tokenVars, eth, lastNative>>

\* Mutant of MineNative: the amount is sent to the contract by a transaction
\* of its own, the batch follows with no value attached
MineNative_FundsFirst ==
    /\ npending # <<>>
    /\ LET tx == npending[1]
           funded == Credit(eth, tx.from, tx.value)
           r == etherBulkTransferAmounts(funded, tx.from, 0, tx.params)
       IN  /\ eth' = r.eth
           /\ lastNative' = [op |-> "subBatch", caller |-> tx.from,
                             value |-> tx.value, params |-> tx.params,
                             ok |-> r.ok, paid |-> r.paid, pre |-> eth]
    /\ npending' = <<>>
    /\ UNCHANGED <<regVars, tokenVars, sub, lastSub>>

\* the ledger executes the native batch transaction that was sent
MineNative ==
    /\ npending # <<>>
    /\ LET tx == npending[1]
           r == etherBulkTransferAmounts(eth, tx.from, tx.value, tx.params)
       IN  /\ eth' = r.eth
           /\ lastNative' = [op |-> "subBatch", caller |-> tx.from,
                             value |-> tx.value, params |-> tx.params,
                             ok |-> r.ok, paid |-> r.paid, pre |-> eth]
    /\ npending' = <<>>
    /\ UNCHANGED <<regVars, tokenVars, sub, lastSub>>

\* the caller has looked at the outcome of its last processInvoices call
DiscardSub ==
    /\ sub.pc = "idle" /\ npending = <<>>
    /\ lastSub # NoSub
    /\ lastSub' = NoSub
    /\ lastNative' = NoNative
    /\ UNCHANGED <<regVars, tokenVars, eth, sub, npending>>

InitNative ==
    /\ eth = [a \in Accounts |->
                 IF a = OwnerAddr THEN OwnerFunds ELSE IF a = W1 THEN 1 ELSE 0]
    /\ lastNative = NoNative
    /\ sub = IdleSub
    /\ npending = <<>>
    /\ lastSub = NoSub


(***************************************************************************)
(* The ERC20 tokens (IERC20).  TA follows OpenZeppelin's ERC20 and reverts *)
(* when a transfer cannot be made; TB reports it by returning false.  An   *)
(* allowance of MAX_UINT256 is not spent.  An address with no code (the    *)
(* zero address of an unassigned id) makes the call revert.                *)
(***************************************************************************)
Tokens == {TA, TB}
Wallets == {W1, W2}
Holders == {W1, W2, R1}
TokenReceivers == {R1}
ReturnsFalse(t) == t = TB

\* IERC20(t).transferFrom(from, to, amount) called by the BulkWithdraw contract
transferFrom(b, al, t, from, to, amount) ==
    IF t \notin Tokens THEN [status |-> "revert", bal |-> b, allow |-> al]
    ELSE IF b[t][from] >= amount /\ al[t][from] >= amount
    THEN [status |-> "ok",
          bal |-> [b EXCEPT ![t] = [[@ EXCEPT ![from] = @ - amount]
                                       EXCEPT ![to] = @ + amount]],
          allow |-> IF al[t][from] = MAX_UINT256 THEN al
                    ELSE [al EXCEPT ![t][from] = @ - amount]]
    ELSE IF ReturnsFalse(t) THEN [status |-> "false", bal |-> b, allow |-> al]
    ELSE [status |-> "revert", bal |-> b, allow |-> al]

(***************************************************************************)
(* AtomicBatchExecutor, token path                                         *)
(***************************************************************************)
TokenAmounts == {1, 2}
TokenInvoices ==
    [token : 0 .. MaxRegs, sender : Wallets, receiver : TokenReceivers,
     amount : TokenAmounts]

\* for (uint16 i; i < params.length; i++)
\*     IERC20(tokens[params[i].token]).transferFrom(sender, receiver, amount);
\* the value transferFrom returns is not looked at.  landed: per invoice so
\* far, whether its transfer was made
RECURSIVE TransferLoop(_, _, _, _)
TransferLoop(b, al, params, landed) ==
    IF params = <<>> THEN [ok |-> TRUE, bal |-> b, allow |-> al, landed |-> landed]
    ELSE LET inv == Head(params)
             r == transferFrom(b, al, TokenAt(inv.token), inv.sender,
                               inv.receiver, inv.amount)
         IN  IF r.status = "revert"
             THEN [ok |-> FALSE, bal |-> b, allow |-> al,
                   landed |-> Append(landed, FALSE)]
             ELSE TransferLoop(r.bal, r.allow, Tail(params),
                               Append(landed, r.status = "ok"))

\* Mutant of erc20sMultiOriginBulkTransferAmounts: the loop stops after the
\* first invoice
erc20sMultiOriginBulkTransferAmounts_FirstOnly(b, al, caller, params) ==
    LET first == IF params = <<>> THEN <<>> ELSE <<Head(params)>>
        r == TransferLoop(b, al, first, <<>>)
    IN
    IF caller # owner
    THEN [ok |-> FALSE, bal |-> b, allow |-> al, landed |-> <<>>]
    ELSE IF r.ok THEN r
    ELSE [ok |-> FALSE, bal |-> b, allow |-> al, landed |-> r.landed]

\* erc20sMultiOriginBulkTransferAmounts as one transaction
erc20sMultiOriginBulkTransferAmounts(b, al, caller, params) ==
    LET r == TransferLoop(b, al, params, <<>>) IN
    IF caller # owner
    THEN [ok |-> FALSE, bal |-> b, allow |-> al, landed |-> <<>>]
    ELSE IF r.ok THEN r
    ELSE [ok |-> FALSE, bal |-> b, allow |-> al, landed |-> r.landed]

\* the last transaction on the token ledger: changed records whether it left
\* a balance or an allowance different from what it found
NoTok == [op |-> "none", caller |-> ZeroAddr, ok |-> FALSE, landed |-> <<>>,
          changed |-> FALSE]

\* a direct call of erc20sMultiOriginBulkTransferAmounts
Erc20sMultiOriginBulkTransferAmounts(caller, params) ==
    LET r == erc20sMultiOriginBulkTransferAmounts(bal, allow, caller, params) IN
    /\ lastTok = NoTok
    /\ bal' = r.bal
    /\ allow' = r.allow
    /\ lastTok' = [op |-> "erc20sMulti", caller |-> caller, ok |-> r.ok,
                   landed |-> r.landed,
                   changed |-> (r.bal # bal \/ r.allow # allow)]
    /\ UNCHANGED <<regVars, nativeVars, orchVars>>

\* IERC20(t).approve(BulkWithdraw, amount) sent by wallet w
Approve(w, t, amount) ==
    /\ allow[t][w] # amount
    /\ allow' = [allow EXCEPT ![t][w] = amount]
    /\ lastTok' = [op |-> "approve", caller |-> w, ok |-> TRUE, landed |-> <<>>,
                   changed |-> TRUE]
    /\ UNCHANGED <<regVars, nativeVars, bal, orchVars>>

\* IERC20(t).transfer(R1, 1) sent by wallet w: a spend by the wallet's holder
Spend(w, t) ==
    /\ bal[t][w] >= 1
    /\ bal' = [bal EXCEPT ![t] = [[@ EXCEPT ![w] = @ - 1] EXCEPT ![R1] = @ + 1]]
    /\ lastTok' = [op |-> "transfer", caller |-> w, ok |-> TRUE, landed |-> <<>>,
                   changed |-> TRUE]
    /\ UNCHANGED <<regVars, nativeVars, allow, orchVars>>

(***************************************************************************)
(* The off-ledger BulkWithdraw class: processTokenInvoices                 *)
(***************************************************************************)
\* getEtherSigner(hdWallet, wallet).getAddress(): the key-management provider
\* derives the address from the wallet reference
WalletRefs == [account : {1}, index : {1, 2}]
AddressOf(ref) == IF ref.index = 1 THEN W1 ELSE W2

SendingTokenInvoices ==
    [wallet : WalletRefs, tokenAddress : {TA, TB, TX}, amount : TokenAmounts,
     receiver : TokenReceivers]

\* checkTokenExistInContract: if (tokenId) return true; return false
checkTokenExistInContract(tokenAddress) ==
    LET r == getTokenByAddress(tokenAddress) IN
    [threw |-> r.reverted, exists |-> r.id # 0]

\* Mutant of checkWalletTokenBalance: a balance equal to the amount passes
checkWalletTokenBalance_AtLeast(walletAddress, tokenAddress, amount) ==
    bal[tokenAddress][walletAddress] >= amount

\* checkWalletTokenBalance: return balance > amount
checkWalletTokenBalance(walletAddress, tokenAddress, amount) ==
    bal[tokenAddress][walletAddress] > amount

\* Mutant of checkWalletAllowance: an allowance one short of the amount passes
checkWalletAllowance_OneShort(walletAddress, tokenAddress, amount) ==
    allow[tokenAddress][walletAddress] + 1 >= amount

\* checkWalletAllowance: return allowance > amount
checkWalletAllowance(walletAddress, tokenAddress, amount) ==
    allow[tokenAddress][walletAddress] > amount

\* the last direct call of a check method, what it read on the ledger and
\* what it returned, or the last call of setMaxAllowance
NoCheck == [fn |-> "none", wallet |-> ZeroAddr, token |-> ZeroAddr, amount |-> 0,
            read |-> 0, threw |-> FALSE, result |-> FALSE]

\* a caller invokes checkTokenExistInContract(tokenAddress)
CheckTokenExistInContract(tokenAddress) ==
    LET r == checkTokenExistInContract(tokenAddress) IN
    /\ lastCheck' = [fn |-> "checkTokenExistInContract", wallet |-> ZeroAddr,
                     token |-> tokenAddress, amount |-> 0, read |-> 0,
                     threw |-> r.threw, result |-> r.exists]
    /\ UNCHANGED <<regVars, nativeVars, erc20Vars, lastTok, orch, pending, lastOrch>>

\* a caller invokes checkWalletTokenBalance(walletAddress, tokenAddress, amount)
CheckWalletTokenBalance(walletAddress, tokenAddress, amount) ==
    /\ lastCheck' = [fn |-> "checkWalletTokenBalance", wallet |-> walletAddress,
                     token |-> tokenAddress, amount |-> amount,
                     read |-> bal[tokenAddress][walletAddress], threw |-> FALSE,
                     result |-> checkWalletTokenBalance(walletAddress,
                                                        tokenAddress, amount)]
    /\ UNCHANGED <<regVars, nativeVars, erc20Vars, lastTok, orch, pending, lastOrch>>

\* a caller invokes checkWalletAllowance(walletAddress, tokenAddress, amount)
CheckWalletAllowance(walletAddress, tokenAddress, amount) ==
    /\ lastCheck' = [fn |-> "checkWalletAllowance", wallet |-> walletAddress,
                     token |-> tokenAddress, amount |-> amount,
                     read |-> allow[tokenAddress][walletAddress], threw |-> FALSE,
                     result |-> checkWalletAllowance(walletAddress,
                                                     tokenAddress, amount)]
    /\ UNCHANGED <<regVars, nativeVars, erc20Vars, lastTok, orch, pending, lastOrch>>

\* Mutant of SetMaxAllowance: the approval is for the token's supply
SetMaxAllowance_Supply(walletParams, tokenAddress) ==
    LET w == AddressOf(walletParams) IN
    /\ allow' = [allow EXCEPT ![tokenAddress][w] = TokenSupply]
    /\ lastTok' = [op |-> "approve", caller |-> w, ok |-> TRUE, landed |-> <<>>,
                   changed |-> (allow' # allow)]
    /\ lastCheck' = [fn |-> "setMaxAllowance", wallet |-> w, token |-> tokenAddress,
                     amount |-> MAX_UINT256, read |-> 0, threw |-> FALSE,
                     result |-> TRUE]
    /\ UNCHANGED <<regVars, nativeVars, bal, orch, pending, lastOrch>>

\* a caller invokes setMaxAllowance(hdWallet, walletParams, tokenAddress): the
\* wallet's signer sends approve(config.contract, MAX_UINT256) to the token and
\* the method waits until the transaction is mined
SetMaxAllowance(walletParams, tokenAddress) ==
    LET w == AddressOf(walletParams) IN
    /\ allow' = [allow EXCEPT ![tokenAddress][w] = MAX_UINT256]
    /\ lastTok' = [op |-> "approve", caller |-> w, ok |-> TRUE, landed |-> <<>>,
                   changed |-> (allow' # allow)]
    /\ lastCheck' = [fn |-> "setMaxAllowance", wallet |-> w, token |-> tokenAddress,
                     amount |-> MAX_UINT256, read |-> 0, threw |-> FALSE,
                     result |-> TRUE]
    /\ UNCHANGED <<regVars, nativeVars, bal, orch, pending, lastOrch>>

Idle == [pc |-> "idle", batch |-> <<>>, i |-> 0, errors |-> <<>>,
         invoices |-> <<>>]
\* how the last processTokenInvoices call ended: the errors it returned, the
\* number of transactions it sent, the length n of its batch
NoOrch == [status |-> "none", errors |-> <<>>, sent |-> 0, n |-> 0]

\* the position after invoice o.i: the next invoice, or the end of the loop
Advance(o) ==
    IF o.i >= Len(o.batch) THEN [o EXCEPT !.pc = "decide"]
    ELSE [o EXCEPT !.pc = "exist", !.i = @ + 1]

\* the call ends by throwing (a ledger query failed)
Threw(o) == [status |-> "threw", errors |-> o.errors, sent |-> 0,
             n |-> Len(o.batch)]

\* the caller invokes processTokenInvoices(hdWallet, batch)
ProcessTokenInvoices(batch) ==
    /\ orch.pc = "idle" /\ pending = <<>>
    /\ lastOrch = NoOrch /\ lastTok = NoTok
    /\ orch' = Advance([Idle EXCEPT !.batch = batch])
    /\ UNCHANGED <<regVars, nativeVars, erc20Vars, lastTok, pending, lastOrch, lastCheck>>

\* Mutant of CheckExist: the continue after a failed existence check is
\* missing, the balance and allowance checks follow
CheckExist_NoContinue ==
    /\ orch.pc = "exist"
    /\ LET invoice == orch.batch[orch.i]
           r == checkTokenExistInContract(invoice.tokenAddress)
       IN  IF r.threw
           THEN orch' = Idle /\ lastOrch' = Threw(orch)
           ELSE /\ orch' = IF r.exists THEN [orch EXCEPT !.pc = "balance"]
                           ELSE [orch EXCEPT !.pc = "balance", !.errors =
                                   Append(@, [code |-> "TOKEN_NOT_IN_CONTRACT",
                                              at |-> orch.i])]
                /\ lastOrch' = lastOrch
    /\ UNCHANGED <<regVars, nativeVars, erc20Vars, lastTok, pending, lastCheck>>

\* 1. await this.checkTokenExistInContract(invoice.tokenAddress)
CheckExist ==
    /\ orch.pc = "exist"
    /\ LET invoice == orch.batch[orch.i]
           r == checkTokenExistInContract(invoice.tokenAddress)
       IN  IF r.threw
           THEN orch' = Idle /\ lastOrch' = Threw(orch)
           ELSE /\ orch' = IF r.exists THEN [orch EXCEPT !.pc = "balance"]
                           ELSE Advance([orch EXCEPT !.errors =
                                   Append(@, [code |-> "TOKEN_NOT_IN_CONTRACT",
                                              at |-> orch.i])])
                /\ lastOrch' = lastOrch
    /\ UNCHANGED <<regVars, nativeVars, erc20Vars, lastTok, pending, lastCheck>>

\* 2. await this.checkWalletTokenBalance(sender, tokenAddress, amount)
\* (balanceOf of an address that is no token contract makes the query throw)
CheckBalance ==
    /\ orch.pc = "balance"
    /\ LET invoice == orch.batch[orch.i] IN
       IF invoice.tokenAddress \notin Tokens
       THEN orch' = Idle /\ lastOrch' = Threw(orch)
       ELSE /\ orch' = IF checkWalletTokenBalance(AddressOf(invoice.wallet),
                                         invoice.tokenAddress, invoice.amount)
                       THEN [orch EXCEPT !.pc = "allowance"]
                       ELSE [orch EXCEPT !.pc = "allowance", !.errors =
                               Append(@, [code |-> "INSUFFICIENT_BALANCE",
                                          at |-> orch.i])]
            /\ lastOrch' = lastOrch
    /\ UNCHANGED <<regVars, nativeVars, erc20Vars, lastTok, pending, lastCheck>>

\* Mutant of CheckAllowance: an insufficient allowance is raised to the
\* maximum instead of being reported
CheckAllowance_GrantsMax ==
    /\ orch.pc = "allowance"
    /\ LET invoice == orch.batch[orch.i] IN
       /\ orch' = [orch EXCEPT !.pc = "resolve"]
       /\ allow' = IF checkWalletAllowance(AddressOf(invoice.wallet),
                                          invoice.tokenAddress, invoice.amount)
                   THEN allow
                   ELSE [allow EXCEPT ![invoice.tokenAddress]
                                       [AddressOf(invoice.wallet)] = MAX_UINT256]
    /\ UNCHANGED <<regVars, nativeVars, bal, lastTok, pending, lastOrch, lastCheck>>

\* 3. await this.checkWalletAllowance(sender, tokenAddress, amount)
CheckAllowance ==
    /\ orch.pc = "allowance"
    /\ LET invoice == orch.batch[orch.i] IN
       orch' = IF checkWalletAllowance(AddressOf(invoice.wallet),
                                       invoice.tokenAddress, invoice.amount)
               THEN [orch EXCEPT !.pc = "resolve"]
               ELSE [orch EXCEPT !.pc = "resolve", !.errors =
                        Append(@, [code |-> "INSUFFICIENT_ALLOWANCE", at |-> orch.i])]
    /\ UNCHANGED <<regVars, nativeVars, erc20Vars, lastTok, pending, lastOrch, lastCheck>>

\* Mutant of Resolve: the on-ledger invoice is put in front of the list
Resolve_Unshift ==
    /\ orch.pc = "resolve"
    /\ LET invoice == orch.batch[orch.i]
           r == getTokenByAddress(invoice.tokenAddress)
       IN  IF r.reverted
           THEN orch' = Idle /\ lastOrch' = Threw(orch)
           ELSE /\ orch' = Advance([orch EXCEPT !.invoices =
                              <<[token |-> r.id,
                                 sender |-> AddressOf(invoice.wallet),
                                 receiver |-> invoice.receiver,
                                 amount |-> invoice.amount]>> \o @])
                /\ lastOrch' = lastOrch
    /\ UNCHANGED <<regVars, nativeVars, erc20Vars, lastTok, pending, lastCheck>>

\* invoices.push({token: await this.contract.getTokenByAddress(tokenAddress),
\*                sender, receiver, amount})
Resolve ==
    /\ orch.pc = "resolve"
    /\ LET invoice == orch.batch[orch.i]
           r == getTokenByAddress(invoice.tokenAddress)
       IN  IF r.reverted
           THEN orch' = Idle /\ lastOrch' = Threw(orch)
           ELSE /\ orch' = Advance([orch EXCEPT !.invoices =
                              Append(@, [token |-> r.id,
                                         sender |-> AddressOf(invoice.wallet),
                                         receiver |-> invoice.receiver,
                                         amount |-> invoice.amount])])
                /\ lastOrch' = lastOrch
    /\ UNCHANGED <<regVars, nativeVars, erc20Vars, lastTok, pending, lastCheck>>

\* Mutant of HasErrors: a single error is let through
HasErrors_MoreThanOne(errors) == Len(errors) > 1

\* if (errors.length > 0) return errors
HasErrors(errors) == Len(errors) > 0

\* 4. return the errors, or send erc20sMultiOriginBulkTransferAmounts(invoices)
\* signed by config.ownerWallet and return the empty list
Decide ==
    /\ orch.pc = "decide"
    /\ IF HasErrors(orch.errors)
       THEN /\ pending' = pending
            /\ lastOrch' = [status |-> "returned", errors |-> orch.errors,
                            sent |-> 0, n |-> Len(orch.batch)]
       ELSE /\ pending' = <<[from |-> OwnerAddr, params |-> orch.invoices]>>
            /\ lastOrch' = [status |-> "returned", errors |-> orch.errors,
                            sent |-> 1, n |-> Len(orch.batch)]
    /\ orch' = Idle
    /\ UNCHANGED <<regVars, nativeVars, erc20Vars, lastTok, lastCheck>>

\* the ledger executes the batch transaction that was sent
Mine ==
    /\ pending # <<>>
    /\ LET tx == pending[1]
           r == erc20sMultiOriginBulkTransferAmounts(bal, allow, tx.from, tx.params)
       IN  /\ bal' = r.bal
           /\ allow' = r.allow
           /\ lastTok' = [op |-> "orchBatch", caller |-> tx.from, ok |-> r.ok,
                          landed |-> r.landed,
                          changed |-> (r.bal # bal \/ r.allow # allow)]
    /\ pending' = <<>>
    /\ UNCHANGED <<regVars, nativeVars, orch, lastOrch, lastCheck>>

\* the caller has looked at the outcome of its last call or transaction
Discard ==
    /\ orch.pc = "idle" /\ pending = <<>>
    /\ lastOrch # NoOrch \/ lastTok # NoTok
    /\ lastOrch' = NoOrch
    /\ lastTok' = NoTok
    /\ UNCHANGED <<regVars, nativeVars, erc20Vars, orch, pending, lastCheck>>

\* The ledger as the test set-up leaves it (deployToken): each token is
\* deployed by one wallet, which holds its supply and has approved the
\* BulkWithdraw contract for MAX_UINT256
HolderOf(t) == IF t = TA THEN W1 ELSE W2
InitTokens ==
    /\ bal = [t \in Tokens |-> [h \in Holders |->
                 IF h = HolderOf(t) THEN TokenSupply ELSE 0]]
    /\ allow = [t \in Tokens |-> [w \in Wallets |->
                 IF w = HolderOf(t) THEN MAX_UINT256 ELSE 0]]
    /\ lastTok = NoTok
    /\ orch = Idle
    /\ pending = <<>>
    /\ lastOrch = NoOrch
    /\ lastCheck = NoCheck

\* ... and its registry: the owner has registered TA, then TB
InitDeployedRegistry ==
    /\ owner = OwnerAddr
    /\ preloaded = 0
    /\ tokenId = 2
    /\ tokens = [k \in ExplicitIds |->
                    IF k = 1 THEN TA ELSE IF k = 2 THEN TB ELSE ZeroAddr]
    /\ regLog = <<[id |-> 1, token |-> TA], [id |-> 2, token |-> TB]>>
    /\ lastReg = NoReg

\* Batches around the end of the range of the uint8 index: invoices of 1 to
\* R1, the last one any invoice; the owner holds enough to fund them
LoopFunds == 520
LoopValue == 260
LoopLengths == {0, 1, 2, MaxUint8 - 1, MaxUint8, MaxUint8 + 1, MaxUint8 + 2}
LongBatch(n, last) ==
    [i \in 1 .. n |-> IF i = n THEN last ELSE [receiver |-> R1, amount |-> 1]]
LoopBatches == {LongBatch(n, last) : n \in LoopLengths, last \in NativeInvoices}

InitLoop ==
    /\ InitRegistry /\ preloaded = 0
    /\ InitTokens
    /\ eth = [a \in Accounts |-> IF a = OwnerAddr THEN LoopFunds ELSE 0]
    /\ lastNative = NoNative
    /\ sub = IdleSub
    /\ npending = <<>>
    /\ lastSub = NoSub

(***************************************************************************)
(* Specifications                                                          *)
(***************************************************************************)
Init == InitRegistry /\ InitNative /\ InitTokens
InitFresh == Init /\ preloaded = 0
InitDeployed == InitDeployedRegistry /\ InitNative /\ InitTokens

NextRegistry ==
    \E caller \in Callers, token \in RegTokens : AddToken(caller, token)

NextNative ==
    \/ \E caller \in Callers, value \in Values, params \in BatchesOf(NativeInvoices) :
            EtherBulkTransferAmounts(caller, value, params)
    \/ \E from \in Callers, value \in Values : Receive(from, value)

ApprovePairs == {<<W1, TA>>, <<W2, TB>>}
ApproveAmounts == {0, 2, MAX_UINT256}

NextToken ==
    \/ \E caller \in Callers, params \in BatchesOf(TokenInvoices) :
            Erc20sMultiOriginBulkTransferAmounts(caller, params)
    \/ \E p \in ApprovePairs, amount \in ApproveAmounts : Approve(p[1], p[2], amount)
    \/ \E token \in Tokens : AddToken(OwnerAddr, token)
    \/ Discard

\* processTokenInvoices alone: no other transaction reaches the ledger
NextOrchAlone ==
    \/ \E batch \in BatchesOf(SendingTokenInvoices) : ProcessTokenInvoices(batch)
    \/ CheckExist
    \/ CheckBalance
    \/ CheckAllowance
    \/ Resolve
    \/ Decide
    \/ Mine
    \/ Discard

\* processTokenInvoices on a ledger that other accounts change only while no
\* call is in progress and no batch is waiting to be executed
Quiet == orch.pc = "idle" /\ pending = <<>>
NextOrchQuiet ==
    \/ \E batch \in BatchesOf(SendingTokenInvoices) : ProcessTokenInvoices(batch)
    \/ CheckExist
    \/ CheckBalance
    \/ CheckAllowance
    \/ Resolve
    \/ Decide
    \/ Mine
    \/ Discard
    \/ Quiet /\ \E p \in ApprovePairs, amount \in ApproveAmounts :
                    Approve(p[1], p[2], amount)
    \/ Quiet /\ \E p \in ApprovePairs : Spend(p[1], p[2])
    \/ Quiet /\ \E token \in Tokens : AddToken(OwnerAddr, token)

\* the native batch on long batches, called until one goes through
NextLoop ==
    /\ lastNative.op = "none" \/ ~lastNative.ok
    /\ \E caller \in Callers, value \in {0, 2, LoopValue}, params \in LoopBatches :
            EtherBulkTransferAmounts(caller, value, params)

NextOrch ==
    \/ \E batch \in BatchesOf(SendingTokenInvoices) : ProcessTokenInvoices(batch)
    \/ CheckExist
    \/ CheckBalance
    \/ CheckAllowance
    \/ Resolve
    \/ Decide
    \/ Mine
    \/ Discard
    \/ \E p \in ApprovePairs, amount \in {0, MAX_UINT256} : Approve(p[1], p[2], amount)
    \/ \E p \in ApprovePairs : Spend(p[1], p[2])
    \/ \E token \in Tokens : AddToken(OwnerAddr, token)

\* the contract's entry points called by the owner and by another account,
\* on a fresh registry and on one close to the end of the uint16 range
NextLedger ==
    \/ \E caller \in Callers, token \in Tokens : AddToken(caller, token)
    \/ \E caller \in Callers, newOwner \in Callers : TransferOwnership(caller, newOwner)
    \/ \E from \in Callers, value \in Amounts : Receive(from, value)
    \/ \E caller \in Callers :
            EtherBulkTransferAmounts(caller, 0, <<[receiver |-> R1, amount |-> 1]>>)
    \/ \E caller \in Callers, id \in {1, 2} :
            Erc20sMultiOriginBulkTransferAmounts(caller,
                <<[token |-> id, sender |-> W1, receiver |-> R1, amount |-> 1]>>)
    \/ Discard

\* the check methods called directly, on a ledger that other accounts change
NextChecks ==
    \/ \E a \in {TA, TB, TX} : CheckTokenExistInContract(a)
    \/ \E w \in Wallets, t \in Tokens, amount \in TokenAmounts :
            CheckWalletTokenBalance(w, t, amount)
    \/ \E w \in Wallets, t \in Tokens, amount \in TokenAmounts :
            CheckWalletAllowance(w, t, amount)
    \/ \E p \in ApprovePairs, amount \in ApproveAmounts : Approve(p[1], p[2], amount)
    \/ \E p \in ApprovePairs : Spend(p[1], p[2])
    \/ \E token \in Tokens : AddToken(OwnerAddr, token)
    \/ \E walletParams \in WalletRefs, t \in Tokens : SetMaxAllowance(walletParams, t)

\* processInvoices, with deposits of another account and direct batches of
\* the owner, which draw on the contract's balance, in between
NextSubmit ==
    \/ \E amount \in Values, sendingInvoices \in BatchesOf(NativeInvoices) :
            ProcessInvoices(amount, sendingInvoices)
    \/ GetBalance
    \/ SendNative
    \/ MineNative
    \/ DiscardSub
    \/ \E value \in Values : Receive(W1, value)
    \/ EtherBulkTransferAmounts(OwnerAddr, 0, <<[receiver |-> R1, amount |-> 1]>>)

Next ==
    \/ NextRegistry \/ NextNative \/ NextToken \/ NextOrch \/ NextChecks
    \/ NextSubmit \/ NextLedger \/ NextOrchQuiet \/ NextLoop

Spec == Init /\ [][Next]_vars
SpecRegistry == Init /\ [][NextRegistry]_vars
SpecRegistryFresh == InitFresh /\ [][NextRegistry]_vars
SpecNative == InitFresh /\ [][NextNative]_vars
SpecToken == InitDeployed /\ [][NextToken]_vars
SpecOrch == InitDeployed /\ [][NextOrch]_vars
SpecOrchAlone == InitDeployed /\ [][NextOrchAlone]_vars
SpecOrchQuiet == InitDeployed /\ [][NextOrchQuiet]_vars
SpecLedger == Init /\ [][NextLedger]_vars
SpecChecks == InitDeployed /\ [][NextChecks]_vars
SpecSubmit == InitFresh /\ [][NextSubmit]_vars
SpecLoop == InitLoop /\ [][NextLoop]_vars

(***************************************************************************)
(* Registry claims                                                         *)
(***************************************************************************)
LogIds == {regLog[i].id : i \in 1 .. Len(regLog)}
LogTokens == {regLog[i].token : i \in 1 .. Len(regLog)}
WasRegistered(a) == a \in LogTokens \/ (preloaded > 0 /\ a = Filler)
WasAssigned(k) == k \in LogIds \/ (k >= 1 /\ k <= preloaded)
\* the id of the first registration of a registered address a
FirstIdOf(a) ==
    IF preloaded > 0 /\ a = Filler THEN 1
    ELSE regLog[Min({i \in 1 .. Len(regLog) : regLog[i].token = a})].id
ProbeIds == ExplicitIds \cup {FirstHidden, LastHidden}

\* C5: after any sequence of successful registrations, every (non-zero)
\* address registered at id k is found by getTokenByAddress at the id of its
\* first registration, and getTokenById(k) returns the address registered at
\* k; this includes the most recently registered token.
C5_RegistryRoundTrip ==
    /\ \A a \in Addresses \ {ZeroAddr} :
          WasRegistered(a) =>
              getTokenByAddress(a) = [reverted |-> FALSE, id |-> FirstIdOf(a)]
    /\ \A i \in 1 .. Len(regLog) :
          getTokenById(regLog[i].id) = [reverted |-> FALSE, token |-> regLog[i].token]

\* C6: the n-th successful registration is assigned id n, no id is assigned
\* twice, a failed registration leaves the counter and the mapping unchanged,
\* and the counter never decreases.
C6_SequentialIds ==
    /\ \A i \in 1 .. Len(regLog) : regLog[i].id = preloaded + i
    /\ \A i, j \in 1 .. Len(regLog) : regLog[i].id = regLog[j].id => i = j
    /\ lastReg.op = "addToken" =>
          /\ tokenId >= lastReg.preId
          /\ ~lastReg.ok => tokenId = lastReg.preId /\ tokens = lastReg.preTokens
          /\ lastReg.ok => tokenId = lastReg.preId + 1

\* C7: in every reachable registry state getTokenByAddress of a never
\* registered address returns 0, getTokenById(0) fails, and getTokenById(k)
\* of a never assigned k > 0 returns the zero address without failing.
C7_LookupSentinels ==
    /\ \A a \in Addresses :
          ~WasRegistered(a) => getTokenByAddress(a) = [reverted |-> FALSE, id |-> 0]
    /\ getTokenById(0).reverted
    /\ \A k \in ProbeIds :
          (k > 0 /\ ~WasAssigned(k)) =>
              getTokenById(k) = [reverted |-> FALSE, token |-> ZeroAddr]

(***************************************************************************)
(* Token-path claims                                                       *)
(***************************************************************************)
IsTokenBatch == lastTok.op \in {"erc20sMulti", "orchBatch"}
AllLanded == \A i \in 1 .. Len(lastTok.landed) : lastTok.landed[i]

\* C1: when the transfer of any invoice of an
\* erc20sMultiOriginBulkTransferAmounts call fails (a token that returns
\* false included), the call leaves every token balance and allowance as it
\* found them; a call that succeeds has made every invoice's transfer.
C1_TokenAtomic ==
    IsTokenBatch =>
        /\ ~AllLanded => ~lastTok.changed
        /\ lastTok.ok => AllLanded

\* C3: a processTokenInvoices call that records a validation error returns
\* the error list and sends no transaction, and nothing is sent while the
\* call is still validating.
C3_NoWriteOnErrors ==
    /\ lastOrch.errors # <<>> => lastOrch.status = "returned" /\ lastOrch.sent = 0
    /\ lastOrch.sent = 1 => lastOrch.status = "returned" /\ lastOrch.errors = <<>>
    /\ orch.pc # "idle" => pending = <<>>
    /\ (orch.pc = "idle" /\ lastOrch.sent = 0) => pending = <<>>

\* one invoice of a batch of two failed one check, the other passed them all
C3_Witness ==
    /\ lastOrch.status = "returned" /\ lastOrch.n = 2
    /\ Len(lastOrch.errors) = 1 /\ lastOrch.sent = 0
    /\ pending = <<>> /\ lastTok = NoTok

\* C4: every batch transaction that processTokenInvoices sends succeeds on
\* the ledger, also when several of its invoices draw on the same wallet and
\* token.
C4_SubmittedBatchSucceeds ==
    lastTok.op = "orchBatch" => lastTok.ok

ErrorsAt(errors, k) == SelectSeq(errors, LAMBDA e : e.at = k)
CodesAt(errors, k) ==
    [j \in 1 .. Len(ErrorsAt(errors, k)) |-> ErrorsAt(errors, k)[j].code]
\* invoice j of the batch in progress has been through its checks
Done(j) == j < orch.i \/ orch.pc = "decide"
NotInContractOnly(errors) ==
    \A k \in 1 .. MaxBatch :
        (\E j \in 1 .. Len(errors) :
            errors[j].at = k /\ errors[j].code = "TOKEN_NOT_IN_CONTRACT")
        => Len(ErrorsAt(errors, k)) = 1

\* C12: an invoice whose token address was never registered gets exactly one
\* error, TOKEN_NOT_IN_CONTRACT, and no balance or allowance error, whatever
\* the ledger holds; a one-invoice batch of this kind returns one error.
C12_ExistenceShortCircuit ==
    /\ \A j \in 1 .. Len(orch.batch) :
          (Done(j) /\ ~WasRegistered(orch.batch[j].tokenAddress)) =>
              CodesAt(orch.errors, j) = <<"TOKEN_NOT_IN_CONTRACT">>
    /\ NotInContractOnly(orch.errors)
    /\ NotInContractOnly(lastOrch.errors)
    /\ (lastOrch.n = 1 /\ lastOrch.errors # <<>>
            /\ lastOrch.errors[1].code = "TOKEN_NOT_IN_CONTRACT") =>
          lastOrch.status = "returned" /\ Len(lastOrch.errors) = 1

\* the checks of a one-invoice batch naming a never registered token are over
C12_Witness ==
    /\ orch.pc = "decide" /\ Len(orch.batch) = 1
    /\ orch.batch[1].tokenAddress = TX
    /\ CodesAt(orch.errors, 1) = <<"TOKEN_NOT_IN_CONTRACT">>

\* the errors the checks of an invoice on a registered token produce on the
\* current ledger: balance first, then allowance
ExpectedCodes(invoice) ==
    LET w == AddressOf(invoice.wallet)
        t == invoice.tokenAddress
    IN  (IF bal[t][w] > invoice.amount THEN <<>> ELSE <<"INSUFFICIENT_BALANCE">>)
        \o (IF allow[t][w] > invoice.amount THEN <<>>
            ELSE <<"INSUFFICIENT_ALLOWANCE">>)

\* C13: validation goes over all invoices; the error list is ordered by
\* invoice position, and an invoice on a registered token has its balance and
\* allowance both checked and reported, balance before allowance, one error
\* per failing check.
C13_ErrorOrder ==
    /\ \A a, b \in 1 .. Len(orch.errors) :
          a < b => orch.errors[a].at <= orch.errors[b].at
    /\ \A j \in 1 .. Len(orch.batch) :
          (Done(j) /\ orch.batch[j].tokenAddress \in Tokens
                   /\ WasRegistered(orch.batch[j].tokenAddress)) =>
              CodesAt(orch.errors, j) = ExpectedCodes(orch.batch[j])

\* the on-ledger invoice built from an invoice of the input batch carries a
\* registry id of its token address, the sender's address, receiver and amount
Carries(p, invoice) ==
    /\ p.token # 0 /\ TokenAt(p.token) = invoice.tokenAddress
    /\ p.sender = AddressOf(invoice.wallet)
    /\ p.receiver = invoice.receiver
    /\ p.amount = invoice.amount

\* C14: the step that ends a clean validation sends exactly one transaction,
\* whose invoice list has one entry per input invoice in the same order, each
\* with the token's registry id, the resolved sender, the receiver and the
\* amount; no step sends a second one.
C14_SingleSubmission ==
    [][/\ (orch.pc = "decide" /\ orch'.pc = "idle" /\ orch.errors = <<>>) =>
            /\ Len(pending') = 1 /\ pending = <<>>
            /\ pending'[1].from = OwnerAddr
            /\ Len(pending'[1].params) = Len(orch.batch)
            /\ \A j \in 1 .. Len(orch.batch) :
                   Carries(pending'[1].params[j], orch.batch[j])
            /\ lastOrch'.sent = 1 /\ lastOrch'.errors = <<>>
       /\ Len(pending') <= 1
       /\ (pending' # pending /\ pending' # <<>>) => orch.pc = "decide"]_vars

\* a clean batch of two different invoices has been sent
C14_Witness ==
    /\ lastOrch.sent = 1 /\ lastOrch.n = 2
    /\ pending # <<>> /\ Len(pending[1].params) = 2
    /\ pending[1].params[1] # pending[1].params[2]

DistinctSenders(params) ==
    \A j, k \in 1 .. Len(params) : j # k => params[j].sender # params[k].sender

\* every invoice of the batch in progress is on a registered token, from a
\* wallet of its own, with balance and allowance above the amount
ValidBatch ==
    /\ orch.batch # <<>>
    /\ \A j \in 1 .. Len(orch.batch) :
          /\ orch.batch[j].tokenAddress \in Tokens
          /\ WasRegistered(orch.batch[j].tokenAddress)
          /\ ExpectedCodes(orch.batch[j]) = <<>>
    /\ \A j, k \in 1 .. Len(orch.batch) :
          j # k => orch.batch[j].wallet # orch.batch[k].wallet

\* C15: a batch whose invoices are each on a registered token (the latest
\* registered one included), from distinct wallets, with balance and
\* allowance strictly above the amount, is validated without an error, and
\* the transaction sent for it makes every transfer.
C15_ValidBatchAccepted ==
    /\ (orch.pc = "decide" /\ ValidBatch) => orch.errors = <<>>
    /\ (pending # <<>> /\ DistinctSenders(pending[1].params)) =>
          LET r == erc20sMultiOriginBulkTransferAmounts(bal, allow, pending[1].from,
                                                       pending[1].params)
          IN  r.ok /\ \A j \in 1 .. Len(r.landed) : r.landed[j]

\* C18: no step of a processTokenInvoices call, its existence, balance and
\* allowance checks included, changes the registry, the counter, a native
\* balance, a token balance or an allowance; a call that returns errors has
\* sent no transaction.
C18_ValidationReadOnly ==
    [][/\ orch' # orch =>
            UNCHANGED <<owner, tokenId, tokens, regLog, eth, bal, allow>>
       /\ (lastOrch' # lastOrch /\ lastOrch'.errors # <<>>) =>
            /\ UNCHANGED <<owner, tokenId, tokens, regLog, eth, bal, allow>>
            /\ pending = <<>> /\ pending' = <<>>]_vars

\* a batch of two invoices went through its checks and was returned with an
\* allowance error
C18_Witness ==
    /\ lastOrch.status = "returned" /\ lastOrch.n = 2
    /\ \E j \in 1 .. Len(lastOrch.errors) :
           lastOrch.errors[j].code = "INSUFFICIENT_ALLOWANCE"
    /\ pending = <<>>

\* C20: whatever spend or allowance change comes between the reads of the
\* validation and the execution of the batch it sent, executing the batch on
\* the ledger as it is then makes every transfer or changes nothing.  (The
\* batches looked at draw on a different wallet per invoice, so that a
\* transfer can only fail through such a change.)
C20_ToctouAtomic ==
    (pending # <<>> /\ DistinctSenders(pending[1].params)) =>
        LET r == erc20sMultiOriginBulkTransferAmounts(bal, allow, pending[1].from,
                                                     pending[1].params)
        IN  \/ \A j \in 1 .. Len(r.landed) : r.landed[j]
            \/ r.bal = bal /\ r.allow = allow

(***************************************************************************)
(* processInvoices claims                                                  *)
(***************************************************************************)
\* C16: processInvoices throws and sends nothing when the sum of the invoice
\* amounts is strictly greater than the balance it read plus the amount to
\* fund; otherwise (equality included) it sends the native batch exactly once.
C16_SubmitNativePreflight ==
    /\ lastSub.status # "none" =>
          /\ lastSub.total > lastSub.contractBalance + lastSub.amount =>
                lastSub.status = "threw" /\ lastSub.sent = 0
          /\ lastSub.total <= lastSub.contractBalance + lastSub.amount =>
                lastSub.status = "returned" /\ lastSub.sent = 1
    /\ Len(npending) <= 1
    /\ sub.pc # "idle" => npending = <<>>
    /\ (sub.pc = "idle" /\ lastSub.sent = 0) => npending = <<>>

\* a batch whose sum equals the balance read plus the amount to fund was sent
C16_Witness ==
    /\ lastSub.status = "returned" /\ lastSub.sent = 1 /\ npending # <<>>
    /\ lastSub.total = lastSub.contractBalance + lastSub.amount
    /\ lastSub.contractBalance > 0 /\ lastSub.amount > 0

(***************************************************************************)
(* Native-path claims                                                      *)
(***************************************************************************)
\* what the last native batch addresses to account a, and its total
AmountTo(a) ==
    LET p == lastNative.params
    IN  SumRange([i \in 1 .. Len(p) |->
                    IF p[i].receiver = a THEN p[i].amount ELSE 0], 1, Len(p))
AmountAll ==
    LET p == lastNative.params
    IN  SumRange([i \in 1 .. Len(p) |-> p[i].amount], 1, Len(p))
\* the executor's balance as the call sees it (attached value included)
HeldAtCall == lastNative.pre[Exec] + lastNative.value
ValuePaidBy(a) == IF a = lastNative.caller THEN lastNative.value ELSE 0
IsBatch == lastNative.op = "etherBulk"
NoRejectingReceiver ==
    \A i \in 1 .. Len(lastNative.params) : ~RejectsNative(lastNative.params[i].receiver)

\* C2: when a transfer of an etherBulkTransferAmounts call fails, the
\* transfers made earlier in the call are undone: every balance equals its
\* value before the call.
C2_NativeAtomic ==
    (IsBatch /\ ~lastNative.ok) => eth = lastNative.pre

C2_Witness ==
    IsBatch /\ ~lastNative.ok /\ lastNative.paid >= 1

\* C8: when the sum of the amounts exceeds the balance the call sees, the
\* call fails, makes no transfer and leaves every balance unchanged.
C8_UnderFunded ==
    (IsBatch /\ AmountAll > HeldAtCall) =>
        /\ ~lastNative.ok
        /\ lastNative.paid = 0
        /\ eth = lastNative.pre

C8_Witness ==
    /\ IsBatch /\ lastNative.caller = owner
    /\ AmountAll > HeldAtCall
    /\ HeldAtCall >= lastNative.params[1].amount
    /\ NoRejectingReceiver

\* C9 (as claimed): after a successful batch every receiver has gained exactly
\* what was addressed to it, the executor has lost exactly the sum of all
\* amounts (from its balance with the attached value), nothing else changed
\* (the caller has paid the attached value).
C9_NativeEffect_AsClaimed ==
    (IsBatch /\ lastNative.ok) =>
        /\ \A a \in Accounts \ {Exec} :
              eth[a] = lastNative.pre[a] - ValuePaidBy(a) + AmountTo(a)
        /\ eth[Exec] = HeldAtCall - AmountAll

\* C9 (amended): as above, but what the batch addresses to the executor itself
\* stays in the executor's balance.
C9_NativeEffect ==
    (IsBatch /\ lastNative.ok) =>
        /\ \A a \in Accounts \ {Exec} :
              eth[a] = lastNative.pre[a] - ValuePaidBy(a) + AmountTo(a)
        /\ eth[Exec] = HeldAtCall - AmountAll + AmountTo(Exec)

C9_Witness ==
    /\ IsBatch /\ lastNative.ok /\ lastNative.value > 0
    /\ AmountTo(R1) > 0 /\ AmountTo(Exec) > 0

\* C10 (as claimed): a successful call pays out no more than the balance it
\* sees, the executor's balance is never negative, and a batch whose sum
\* equals that balance is allowed and empties it.
C10_NeverOverdrawn_AsClaimed ==
    /\ \A a \in Accounts : eth[a] >= 0
    /\ (IsBatch /\ lastNative.ok) => AmountAll <= HeldAtCall
    /\ (IsBatch /\ lastNative.caller = owner /\ NoRejectingReceiver
            /\ AmountAll = HeldAtCall) =>
          lastNative.ok /\ eth[Exec] = 0

\* C10 (amended): as above, but a batch whose sum equals the balance leaves
\* the executor with what the batch addresses to the executor itself.
C10_NeverOverdrawn ==
    /\ \A a \in Accounts : eth[a] >= 0
    /\ (IsBatch /\ lastNative.ok) => AmountAll <= HeldAtCall
    /\ (IsBatch /\ lastNative.caller = owner /\ NoRejectingReceiver
            /\ AmountAll = HeldAtCall) =>
          lastNative.ok /\ eth[Exec] = AmountTo(Exec)

C10_Witness ==
    /\ IsBatch /\ lastNative.ok
    /\ AmountAll = HeldAtCall /\ AmountAll > 0 /\ eth[Exec] = 0

(***************************************************************************)
(* Ownership and registry frame claims                                     *)
(***************************************************************************)
LedgerUnchanged == UNCHANGED <<owner, tokenId, tokens, regLog, eth, bal, allow>>

\* C17: a call of addToken, etherBulkTransferAmounts or
\* erc20sMultiOriginBulkTransferAmounts by an account that is not the current
\* owner fails and leaves the registry, the counter and all native and token
\* balances unchanged.
C17_OwnerGating ==
    [][/\ (lastReg' # lastReg /\ lastReg'.op = "addToken"
            /\ lastReg'.caller # owner) => (~lastReg'.ok /\ LedgerUnchanged)
       /\ (lastNative' # lastNative /\ lastNative'.op = "etherBulk"
            /\ lastNative'.caller # owner) => (~lastNative'.ok /\ LedgerUnchanged)
       /\ (lastTok' # lastTok /\ lastTok'.op = "erc20sMulti"
            /\ lastTok'.caller # owner) => (~lastTok'.ok /\ LedgerUnchanged)]_vars

\* the former owner, after handing ownership over, has called the native
\* batch on a contract that holds enough, and failed
C17_Witness ==
    /\ IsBatch /\ lastNative.caller = OwnerAddr /\ owner # OwnerAddr
    /\ ~lastNative.ok /\ AmountAll > 0 /\ AmountAll <= HeldAtCall

\* C19: a slot of tokens that holds an address is never changed or cleared;
\* the only step that changes the mapping is a successful addToken, which
\* writes one slot that was empty.
C19_RegistryImmutable ==
    [][/\ \A k \in DOMAIN tokens : tokens[k] # ZeroAddr => tokens'[k] = tokens[k]
       /\ preloaded' = preloaded
       /\ tokens' # tokens =>
            /\ lastReg' # lastReg /\ lastReg'.op = "addToken" /\ lastReg'.ok
            /\ lastReg'.caller = owner
            /\ tokens[lastReg'.id] = ZeroAddr
            /\ tokens' = [tokens EXCEPT ![lastReg'.id] = lastReg'.token]]_vars

\* the owner's registration was turned down because the slot is taken, after
\* native and token transfers have been made
C19_Witness ==
    /\ lastReg.op = "addToken" /\ lastReg.caller = owner /\ ~lastReg.ok
    /\ tokens[1] = Filler
    /\ eth[R1] > 0 /\ bal[TA][R1] > 0

(***************************************************************************)
(* Soundness of the validation                                             *)
(***************************************************************************)
\* the invoice the call in progress is looking at
CurrentInvoice == orch.batch[orch.i]
NoNewError == orch'.errors = orch.errors

\* C21: an error list that is empty at the end means that every invoice went
\* through all three checks without an error, and a check that adds no error
\* has read a ledger on which the token address is registered under a
\* non-zero id, the sender's balance is at least the amount, and the sender's
\* allowance to the contract is at least the amount.
C21_CleanValidationSound ==
    [][/\ (orch.pc = "exist" /\ orch'.pc = "balance") =>
            LET a == CurrentInvoice.tokenAddress
                r == getTokenByAddress(a)
            IN  WasRegistered(a) /\ ~r.reverted /\ r.id # 0 /\ TokenAt(r.id) = a
       /\ (orch.pc = "balance" /\ orch'.pc = "allowance" /\ NoNewError) =>
            bal[CurrentInvoice.tokenAddress][AddressOf(CurrentInvoice.wallet)]
                >= CurrentInvoice.amount
       /\ (orch.pc = "allowance" /\ orch'.pc = "resolve" /\ NoNewError) =>
            allow[CurrentInvoice.tokenAddress][AddressOf(CurrentInvoice.wallet)]
                >= CurrentInvoice.amount
       /\ (orch' # orch /\ orch.pc # "idle" /\ orch'.pc # "idle") =>
            /\ Len(orch'.errors) >= Len(orch.errors)
            /\ (orch'.pc = "balance" => orch.pc = "exist")
            /\ (orch'.pc = "allowance" => orch.pc = "balance")
            /\ (orch'.pc = "resolve" => orch.pc = "allowance")
            /\ (orch'.pc \in {"exist", "decide"} /\ orch.pc # "resolve") =>
                    (orch.pc = "exist" /\ ~NoNewError)
       /\ (lastOrch' # lastOrch /\ lastOrch'.status = "returned") =>
            orch.pc = "decide" /\ lastOrch'.errors = orch.errors]_vars

\* a batch on two different tokens was validated without an error and sent
C21_Witness ==
    /\ lastOrch.status = "returned" /\ lastOrch.errors = <<>> /\ lastOrch.n = 2
    /\ pending # <<>> /\ Len(pending[1].params) = 2
    /\ pending[1].params[1].token # pending[1].params[2].token

(***************************************************************************)
(* Submission claims                                                       *)
(***************************************************************************)
\* C22: processTokenInvoices and processInvoices return only after the ledger
\* has executed the batch transaction: whenever processTokenInvoices has
\* returned an empty error list, the batch it sent has been executed and its
\* transfers made, and whenever processInvoices has returned, its native
\* batch has been executed.
C22_BlockingSubmission ==
    /\ lastOrch.sent = 1 =>
          /\ pending = <<>>
          /\ lastTok.op = "orchBatch" /\ lastTok.ok /\ AllLanded
    /\ lastSub.sent = 1 =>
          /\ npending = <<>>
          /\ lastNative.op = "subBatch"

\* C23: in every reachable registry state checkTokenExistInContract(a)
\* returns true when the address a was registered by an earlier successful
\* addToken (at whatever id) and false when a was never registered; a direct
\* call of the method has returned accordingly.
C23_ExistsIffRegistered ==
    /\ \A a \in {TA, TB, TX} :
          checkTokenExistInContract(a) = [threw |-> FALSE, exists |-> WasRegistered(a)]
    /\ (lastCheck.fn = "checkTokenExistInContract" /\ lastCheck.result) =>
          WasRegistered(lastCheck.token)

(***************************************************************************)
(* Set-up helper claims                                                    *)
(***************************************************************************)
\* amounts below the maximal allowance: those of the invoices and the largest
CheckedAmounts == TokenAmounts \cup {MAX_UINT256 - 1}

\* C24: a setMaxAllowance call for a wallet and a token sets the allowance
\* the wallet's address grants the contract on that token to MAX_UINT256 and
\* changes no other allowance, no token or native balance and nothing of the
\* registry; right after it checkWalletAllowance is true for that wallet and
\* token for every amount below the maximum, and a direct call of
\* checkWalletAllowance that reads the maximum returns true.
C24_SetMaxAllowance ==
    [][/\ \A w \in Wallets, t \in Tokens :
            (lastCheck' # lastCheck /\ lastCheck'.fn = "setMaxAllowance"
                /\ lastCheck'.wallet = w /\ lastCheck'.token = t) =>
                /\ allow' = [allow EXCEPT ![t][w] = MAX_UINT256]
                /\ UNCHANGED <<bal, eth, owner, tokenId, tokens, regLog>>
                /\ \A a \in CheckedAmounts : checkWalletAllowance(w, t, a)'
       /\ (lastCheck'.fn = "checkWalletAllowance"
              /\ lastCheck'.read = MAX_UINT256) => lastCheck'.result]_vars

\* setMaxAllowance was called for a wallet that had granted nothing on the
\* token, while the other wallet's allowance on it is neither 0 nor maximal
C24_Witness ==
    /\ lastCheck.fn = "setMaxAllowance"
    /\ lastCheck.wallet = W2 /\ lastCheck.token = TA
    /\ allow[TA][W2] = MAX_UINT256
    /\ allow[TA][W1] = 2 /\ bal[TA][R1] > 0

(***************************************************************************)
(* Deposit claims                                                          *)
(***************************************************************************)
\* C25: a plain transfer of native coin to the contract, by the owner or by
\* any other account that holds the amount, succeeds, raises the contract's
\* balance by exactly the amount (taken from the sender, no other balance
\* changes) and leaves the registry, the counter, the owner and the token
\* ledger unchanged.
C25_PassiveDeposit ==
    [][(lastNative' # lastNative /\ lastNative'.op = "receive") =>
            /\ lastNative'.ok
            /\ eth[lastNative'.caller] >= lastNative'.value
            /\ eth'[Exec] = eth[Exec] + lastNative'.value
            /\ eth'[lastNative'.caller] = eth[lastNative'.caller] - lastNative'.value
            /\ \A a \in Accounts \ {Exec, lastNative'.caller} : eth'[a] = eth[a]
            /\ UNCHANGED <<owner, tokenId, tokens, preloaded, regLog, bal, allow>>]_vars

\* an account that is not the owner has deposited 2 into a contract that
\* already held coin and has tokens registered
C25_Witness ==
    /\ lastNative.op = "receive" /\ lastNative.ok
    /\ lastNative.caller # owner /\ lastNative.value = 2
    /\ lastNative.pre[Exec] > 0 /\ eth[Exec] = lastNative.pre[Exec] + 2
    /\ regLog # <<>>

(***************************************************************************)
(* Claims on the 16-bit ids                                                *)
(***************************************************************************)
\* C26: in every reachable state, however many addToken calls were made (the
\* counter past the uint16 range included), tokens[0] is the zero address and
\* no TokenAdded event carries id 0.
C26_ZeroIdNeverAssigned ==
    /\ TokenAt(0) = ZeroAddr
    /\ \A i \in 1 .. Len(regLog) : regLog[i].id # 0

\* only non-zero addresses have been registered
NonZeroRegistrations == \A i \in 1 .. Len(regLog) : regLog[i].token # ZeroAddr

\* C27: after any sequence of registrations of non-zero addresses by the
\* owner, the slot addToken computes from the incremented counter is empty,
\* so the 'Token already set!' check is never met and addToken called by the
\* owner does not fail.
C27_SlotCheckUnreachable ==
    NonZeroRegistrations =>
        /\ TokenAt(ToUint16(tokenId + 1)) = ZeroAddr
        /\ (lastReg.op = "addToken" /\ lastReg.caller = owner
                /\ lastReg.token # ZeroAddr) => lastReg.ok

(***************************************************************************)
(* Token resolution of the token path                                      *)
(***************************************************************************)
\* the batches of up to MaxBatch invoices of 1 from W1 to R1, on every id
ProbeInvoices == [token : 0 .. MaxRegs, sender : {W1}, receiver : {R1}, amount : {1}]
NamesUnusableId(params) ==
    \E j \in 1 .. Len(params) :
        params[j].token = 0 \/ ~WasAssigned(params[j].token)

\* C28: an erc20sMultiOriginBulkTransferAmounts call by the owner whose batch
\* has an invoice with token id 0, or with an id above 0 that was never
\* assigned, fails as a whole: no transfer of any invoice of the batch is
\* applied.
C28_UnusableIdFailsBatch ==
    \A params \in BatchesOf(ProbeInvoices) :
        NamesUnusableId(params) =>
            LET r == erc20sMultiOriginBulkTransferAmounts(bal, allow, owner, params)
            IN  ~r.ok /\ r.bal = bal /\ r.allow = allow

(***************************************************************************)
(* Funding of the native batch                                             *)
(***************************************************************************)
IsSubBatch == lastNative.op = "subBatch"

BalanceNotDecreased ==
    IsSubBatch /\ lastSub.sent = 1 /\ lastNative.pre[Exec] >= lastSub.contractBalance

\* C30: when the fund check of processInvoices has passed (the sum is at most
\* the balance read plus the amount to fund) and the contract's balance at
\* execution is not below the balance read, the fund check of
\* etherBulkTransferAmounts (the sum is at most the balance with the attached
\* value) passes too: the batch can only fail on a receiver that rejects the
\* transfer.
C30_FundChecksAgree ==
    BalanceNotDecreased =>
        /\ lastSub.total <= lastSub.contractBalance + lastSub.amount
        /\ AmountAll = lastSub.total
        /\ FundsSuffice(AmountAll, HeldAtCall)
        /\ ~lastNative.ok =>
              /\ lastNative.paid < Len(lastNative.params)
              /\ RejectsNative(lastNative.params[lastNative.paid + 1].receiver)

\* a batch whose sum equals the balance read plus the amount to fund was
\* executed, after a deposit and a withdrawal that left the balance as read
C30_Witness ==
    /\ BalanceNotDecreased /\ lastNative.ok
    /\ lastSub.total = lastSub.contractBalance + lastSub.amount
    /\ lastNative.pre[Exec] = lastSub.contractBalance
    /\ lastSub.contractBalance > 0 /\ lastSub.amount > 0
    /\ eth[R1] > AmountTo(R1)

(***************************************************************************)
(* Execution of a validated batch                                          *)
(***************************************************************************)
\* no two invoices of the batch draw on the same wallet and token
DistinctPairs(params) ==
    \A j, k \in 1 .. Len(params) :
        j # k => <<params[j].sender, params[j].token>>
                    # <<params[k].sender, params[k].token>>

\* what the invoices of a batch on token address t take from, and give to,
\* holder h
TakenFrom(params, t, h) ==
    LET idx == {i \in 1 .. Len(params) :
                    TokenAt(params[i].token) = t /\ params[i].sender = h}
    IN  SumOver([i \in idx |-> params[i].amount], idx)
GivenTo(params, t, h) ==
    LET idx == {i \in 1 .. Len(params) :
                    TokenAt(params[i].token) = t /\ params[i].receiver = h}
    IN  SumOver([i \in idx |-> params[i].amount], idx)

\* C31: when the ledger has not changed between the reads of a clean
\* validation and the execution of the batch it sent, and no two invoices of
\* the batch share the same sender and token, the execution succeeds, makes
\* every transfer, and moves exactly each invoice's amount from its sender to
\* its receiver; no other balance changes.
C31_ValidatedBatchSucceeds ==
    [][(pending # <<>> /\ pending' = <<>> /\ DistinctPairs(pending[1].params)) =>
            LET params == pending[1].params IN
            /\ lastOrch.sent = 1 /\ lastOrch.errors = <<>>
            /\ lastTok'.op = "orchBatch" /\ lastTok'.ok
            /\ Len(lastTok'.landed) = Len(params)
            /\ \A j \in 1 .. Len(params) : lastTok'.landed[j]
            /\ \A t \in Tokens, h \in Holders :
                  bal'[t][h] = bal[t][h] - TakenFrom(params, t, h)
                                         + GivenTo(params, t, h)]_vars

\* a batch of two invoices on different wallets and tokens was validated and
\* executed
C31_Witness ==
    /\ lastTok.op = "orchBatch" /\ lastTok.ok /\ lastOrch.sent = 1
    /\ Len(lastTok.landed) = 2 /\ AllLanded
    /\ bal[TA][R1] > 0 /\ bal[TB][R1] > 0
    /\ bal[TA][W1] + bal[TA][R1] = TokenSupply

(***************************************************************************)
(* The 8-bit loop index of the native path                                 *)
(***************************************************************************)
\* C32: an etherBulkTransferAmounts call by the owner on a batch of at most
\* 255 invoices sums every invoice once (it goes through exactly when the sum
\* of all amounts is within the balance it sees and no receiver rejects) and
\* pays every invoice once, in input order (a batch that fails at a rejecting
\* receiver has paid exactly the invoices before it); on a batch of 256 or
\* more invoices the call fails before any transfer and leaves every balance
\* unchanged, however well funded it is.
C32_LoopIndex ==
    (IsBatch /\ lastNative.caller = owner) =>
        LET n == Len(lastNative.params) IN
        /\ n >= MaxUint8 + 1 =>
              ~lastNative.ok /\ lastNative.paid = 0 /\ eth = lastNative.pre
        /\ n <= MaxUint8 =>
              /\ lastNative.ok <=> (AmountAll <= HeldAtCall /\ NoRejectingReceiver)
              /\ lastNative.ok =>
                    /\ lastNative.paid = n
                    /\ \A a \in Accounts \ {Exec} :
                          eth[a] = lastNative.pre[a] - ValuePaidBy(a) + AmountTo(a)
                    /\ eth[Exec] = HeldAtCall - AmountAll + AmountTo(Exec)
              /\ (~lastNative.ok /\ AmountAll <= HeldAtCall) =>
                    /\ lastNative.paid < n
                    /\ RejectsNative(lastNative.params[lastNative.paid + 1].receiver)
                    /\ \A i \in 1 .. lastNative.paid :
                          ~RejectsNative(lastNative.params[i].receiver)
                    /\ eth = lastNative.pre

\* a batch of 256 invoices, funded and with no rejecting receiver, has failed
C32_Witness ==
    /\ IsBatch /\ lastNative.caller = owner
    /\ Len(lastNative.params) = MaxUint8 + 1
    /\ AmountAll <= HeldAtCall /\ NoRejectingReceiver
    /\ ~lastNative.ok /\ lastNative.paid = 0

====
